---- MODULE Spec2Model ----
(***************************************************************************)
(* Model of ROW, the per-row storage of the screen buffer                   *)
(* (src/buffer/out/Row.hpp, src/buffer/out/Row.cpp).                        *)
(*                                                                          *)
(* A wchar_t is a 16-bit code unit, modelled as a number lo + 256 * hi.     *)
(* Offsets and columns are 0-based as in the source; TLA+ sequences are     *)
(* 1-based, so the element at offset i of s is s[i + 1].                    *)
(***************************************************************************)
EXTENDS Integers, Sequences, FiniteSets, TLC

\* ------------------------------------------------------------------ bounds
MaxWidth == 2
MaxTextLen == 2
MaxCells == 2
MaxCapacity == 5

\* ------------------------------------------------------- program constants
\* UNICODE_SPACE, the blank written by Reset and ClearCell.
UNICODE_SPACE == 32
\* sizeof(wchar_t) on the platform the code builds for.
WcharSize == 2
\* uint16_t arithmetic on the entries of _indices wraps at 2^16.
IndexModulus == 65536
\* One byte holds 256 values.
ByteModulus == 256

\* Code units used as glyph text: 'a' (U+0061) and a CJK character (U+4E2D)
\* whose high byte is not zero.
TextChars == {97, 20013}

\* What memory that the row never wrote can hold (the caller's arrays at
\* construction, a fresh ::operator new[] block): a choice among these values.
UninitChars == {UNICODE_SPACE, 20013}

Styles == {"S1", "S2"}

Min(a, b) == IF a < b THEN a ELSE b
Max(a, b) == IF a > b THEN a ELSE b

Lo(c) == c % ByteModulus
Hi(c) == c \div ByteModulus

\* Non-empty texts over TextChars of at most MaxTextLen code units.
Texts == UNION {[1..n -> TextChars] : n \in 1..MaxTextLen}

VARIABLES
    chars,              \* _chars: the text buffer, _charsCapacity code units
    charsCapacity,      \* _charsCapacity
    indices,            \* _indices: _indicesCount + 1 offsets
    indicesCount,       \* _indicesCount: the row width
    attr,               \* _attr: the run-length encoded styles, <<[value, length]>>
    lineRendition,      \* _lineRendition
    wrapForced,         \* _wrapForced
    doubleBytePadded,   \* _doubleBytePadded
    usedLength,         \* end offset of the text as the last layout operation placed it
    fault,              \* "none", or why no further call is defined: the undefined
                        \* behaviour the last call ran into, or the row's destruction
    last,               \* the last call: its name, arguments and results
    owned,              \* whether _chars points to a block the row got from operator new[]
    leaked,             \* whether the row dropped a block it allocated without releasing it
    freedBorrowed       \* whether the row released a block it did not allocate

vars == <<chars, charsCapacity, indices, indicesCount, attr, lineRendition,
          wrapForced, doubleBytePadded, usedLength, fault, last,
          owned, leaked, freedBorrowed>>

\* The row as one value, for the operators below.
Row == [chars |-> chars, attr |-> attr, cap |-> charsCapacity, idx |-> indices,
        w |-> indicesCount, lr |-> lineRendition, wrap |-> wrapForced,
        dbp |-> doubleBytePadded, used |-> usedLength]

\* ---------------------------------------------------------- memory helpers
\* memcpy/memmove(dst + d, src + s, n): n BYTES are copied. Whole code units are
\* copied while WcharSize bytes remain; a last odd byte replaces the low byte of
\* the destination unit only (little endian).
CopyBytes(dst, d, src, s, n) ==
    LET full == n \div WcharSize
        part == n % WcharSize
    IN [i \in 1..Len(dst) |->
            IF i > d /\ i <= d + full THEN src[s + (i - d)]
            ELSE IF part = 1 /\ i = d + full + 1
                 THEN Lo(src[s + full + 1]) + ByteModulus * Hi(dst[i])
                 ELSE dst[i]]

\* Whether n bytes starting at code unit offset o lie inside a buffer of cap units.
BytesInside(o, n, cap) == n = 0 \/ (o >= 0 /\ WcharSize * o + n <= WcharSize * cap)

\* wmemset(dst, c, n): n code units.
Wmemset(dst, c, n) == [i \in 1..Len(dst) |-> IF i <= n THEN c ELSE dst[i]]

\* std::iota(_indices, _indices + _indicesCount + 1, 0)
Iota(w) == [i \in 1..(w + 1) |-> i - 1]

\* ------------------------------------------------------ style run list
RECURSIVE Expand(_)
Expand(runs) ==
    IF runs = <<>> THEN <<>>
    ELSE [i \in 1..runs[1].length |-> runs[1].value] \o Expand(Tail(runs))

RECURSIVE Compact(_)
Compact(cols) ==
    IF cols = <<>> THEN <<>>
    ELSE LET rest == Compact(Tail(cols))
         IN IF rest # <<>> /\ rest[1].value = cols[1]
            THEN <<[length |-> rest[1].length + 1, value |-> cols[1]]>> \o Tail(rest)
            ELSE <<[length |-> 1, value |-> cols[1]]>> \o rest

RECURSIVE RleSize(_)
RleSize(runs) == IF runs = <<>> THEN 0 ELSE runs[1].length + RleSize(Tail(runs))

\* replace(begin, end, value) accepts begin <= end <= size().
RleInRange(runs, b, e) == b <= e /\ e <= RleSize(runs)

\* replace(begin, end, value): the half-open range becomes one run of value.
RleReplace(runs, b, e, v) ==
    LET cols == Expand(runs)
    IN Compact([i \in 1..Len(cols) |-> IF i > b /\ i <= e THEN v ELSE cols[i]])

\* at(column)
RleAt(runs, c) == Expand(runs)[c + 1]

\* ------------------------------------------------------------- text store
\* The scan of Replace and GlyphAt for the next offset that differs from lhs,
\* starting at position k. The source's loop has no bound: the result is
\* Len(idx) (one past the last entry) when no entry from k on differs.
RECURSIVE ScanNext(_, _, _)
ScanNext(idx, k, lhs) ==
    IF k >= Len(idx) THEN Len(idx)
    ELSE IF idx[k + 1] # lhs THEN k
    ELSE ScanNext(idx, k + 1, lhs)

WrapIndex(n) == ((n % IndexModulus) + IndexModulus) % IndexModulus

\* The suffix shift of Replace: [chars, cap, status].
ShiftSuffix(r, lhs, rhs, size, g) ==
    LET diff == rhs - lhs - size
        currentLength == r.idx[r.w + 1]
        newLength == currentLength + diff
        newRhs == lhs + size
        count == currentLength - rhs
    IN IF newLength >= 0 /\ newLength <= r.cap
       THEN IF count < 0 THEN [chars |-> r.chars, cap |-> r.cap, status |-> "crash"]
            ELSE IF ~BytesInside(newRhs, count, r.cap) \/ ~BytesInside(rhs, count, r.cap)
            THEN [chars |-> r.chars, cap |-> r.cap, status |-> "oob_chars"]
            ELSE [chars |-> CopyBytes(r.chars, newRhs, r.chars, rhs, count),
                  cap |-> r.cap, status |-> "ok"]
       ELSE IF newLength < 0
       THEN [chars |-> r.chars, cap |-> r.cap, status |-> "bad_alloc"]
       ELSE LET newCapacity == Max(newLength, r.cap + (r.cap \div 2))
                fresh == [i \in 1..newCapacity |-> g]
            IN IF count < 0 THEN [chars |-> r.chars, cap |-> r.cap, status |-> "crash"]
               ELSE IF ~BytesInside(0, lhs, r.cap) \/ ~BytesInside(rhs, count, r.cap)
                       \/ ~BytesInside(newRhs, count, newCapacity)
               THEN [chars |-> r.chars, cap |-> r.cap, status |-> "oob_chars"]
               ELSE [chars |-> CopyBytes(CopyBytes(fresh, 0, r.chars, 0, lhs),
                                         newRhs, r.chars, rhs, count),
                     cap |-> newCapacity, status |-> "ok"]

\* ROW::Replace(size_t x, size_t width, const std::wstring_view& chars).
\* The result is [row, status]; on a status other than "ok" the row is the one
\* the call started from.
ReplaceText(r, x, width, t, g) ==
    IF t = <<>> THEN [status |-> "ok", row |-> r]
    ELSE
    LET x1 == Min(x, r.w)
        lhs == r.idx[x1 + 1]
        x2 == ScanNext(r.idx, Min(x1 + width, r.w), lhs)
    IN IF x2 > r.w THEN [status |-> "oob_index", row |-> r]
       ELSE
       LET rhs == r.idx[x2 + 1]
           size == Len(t)
           diff == rhs - lhs - size
           sh == IF diff # 0 THEN ShiftSuffix(r, lhs, rhs, size, g)
                 ELSE [chars |-> r.chars, cap |-> r.cap, status |-> "ok"]
           idx1 == IF diff # 0
                   THEN [k \in 1..(r.w + 1) |->
                            IF k - 1 >= x2 THEN WrapIndex(r.idx[k] + diff) ELSE r.idx[k]]
                   ELSE r.idx
           idx2 == [k \in 1..(r.w + 1) |->
                      IF k - 1 >= x1 /\ k - 1 < x2 THEN lhs ELSE idx1[k]]
       IN IF sh.status # "ok" THEN [status |-> sh.status, row |-> r]
          ELSE IF ~BytesInside(lhs, size, sh.cap) THEN [status |-> "oob_chars", row |-> r]
          ELSE [status |-> "ok",
                row |-> [r EXCEPT !.chars = CopyBytes(sh.chars, lhs, t, 0, size),
                                  !.cap = sh.cap,
                                  !.idx = idx2,
                                  !.used = IF diff # 0
                                           THEN lhs + size + (r.idx[r.w + 1] - rhs)
                                           ELSE r.used]]

\* ROW::Replace(size_t x, DbcsAttribute attr, const std::wstring_view& chars)
ReplaceDbcs(r, x, dbcs, t, g) ==
    LET x0 == IF dbcs = "Trailing" /\ x > 0 THEN x - 1 ELSE x
    IN ReplaceText(r, x0, IF dbcs = "Single" THEN 1 ELSE 2, t, g)

\* ROW::ClearCell
ClearCell(r, column, g) == ReplaceText(r, column, 1, <<UNICODE_SPACE>>, g)

\* ROW::GlyphAt: [ok, text]; ok is FALSE when the scan leaves the index array
\* or the slice leaves the buffer.
GlyphAt(r, column) ==
    LET c == Min(column, r.w - 1)
        lhs == r.idx[c + 1]
        e == ScanNext(r.idx, c + 1, lhs)
    IN IF e > r.w THEN [ok |-> FALSE, text |-> <<>>]
       ELSE LET rhs == r.idx[e + 1]
            IN IF rhs < lhs \/ rhs > r.cap THEN [ok |-> FALSE, text |-> <<>>]
               ELSE [ok |-> TRUE, text |-> SubSeq(r.chars, lhs + 1, rhs)]

\* ROW::DbcsAttrAt
DbcsAttrAt(r, column) ==
    LET c == Min(column, r.w - 1)
        idx == r.idx[c + 1]
    IN IF c > 0 /\ r.idx[c] = idx THEN "Trailing"
       ELSE IF c < r.w /\ r.idx[c + 2] = idx THEN "Leading"
       ELSE "Single"

\* RowTextIterator: the pair <<_beg, _end>> over the row's arrays.
\* The loop of operator++ from _end = e: the first position past e whose offset
\* differs from current, or cols.
RECURSIVE IterScan(_, _, _, _)
IterScan(idx, cols, e, current) ==
    IF e < cols
    THEN IF idx[e + 2] = current THEN IterScan(idx, cols, e + 1, current) ELSE e + 1
    ELSE e

\* RowTextIterator::operator++
IterNext(r, it) == <<it[2], IterScan(r.idx, r.w, it[2], r.idx[it[2] + 1])>>

\* ROW::CharsBegin, ROW::CharsEnd: the constructor runs operator++ once.
CharsBegin(r) == IterNext(r, <<0, 0>>)
CharsEnd(r) == IterNext(r, <<r.w, r.w>>)

\* RowTextIterator::Cols of every entry from it up to CharsEnd, operator==
\* comparing _beg.
RECURSIVE CharsSpans(_, _)
CharsSpans(r, it) ==
    IF it[1] = CharsEnd(r)[1] THEN <<>>
    ELSE <<it[2] - it[1]>> \o CharsSpans(r, IterNext(r, it))

\* ROW::ContainsText: [ok, has]. wmemchr looks for a blank among the first
\* _indices[_indicesCount] code units and stops at the first one; it runs past
\* the buffer (ok FALSE) when that count exceeds the capacity and no blank
\* lies before the end.
ContainsText(r) ==
    LET n == r.idx[r.w + 1]
        found == \E i \in 1..Min(n, r.cap) : r.chars[i] = UNICODE_SPACE
    IN [ok |-> found \/ n <= r.cap, has |-> found]

\* ROW::GetText
GetText(r) == SubSeq(r.chars, 1, r.w)

\* ROW::Reset as a function of the row: [row, status].
ResetRow(r, fill) ==
    LET n == r.idx[r.w + 1]
    IN IF n > r.cap THEN [status |-> "oob_chars", row |-> r]
       ELSE [status |-> "ok",
             row |-> [r EXCEPT !.chars = Wmemset(r.chars, UNICODE_SPACE, n),
                               !.idx = Iota(r.w),
                               !.attr = RleReplace(r.attr, 0, RleSize(r.attr), fill),
                               !.lr = "SingleWidth",
                               !.wrap = FALSE,
                               !.dbp = FALSE,
                               !.used = r.w]]

\* ---------------------------------------------------- style run list ops
\* resize_trailing_extent(newSize): truncates, or extends the final run.
RleResizeTrailingExtent(runs, n) ==
    LET cols == Expand(runs)
    IN IF n = 0 THEN <<>>
       ELSE IF n <= Len(cols) THEN Compact(SubSeq(cols, 1, n))
       ELSE Compact([i \in 1..n |-> IF i <= Len(cols) THEN cols[i] ELSE cols[Len(cols)]])

\* replace_values(old, new): substitution in every run, boundaries kept.
RleReplaceValues(runs, old, new) ==
    [i \in 1..Len(runs) |-> IF runs[i].value = old THEN [runs[i] EXCEPT !.value = new]
                            ELSE runs[i]]

\* ------------------------------------------------------------ cell writer
Dbcs == {"Single", "Leading", "Trailing"}
Behaviors == {"Stored", "Current", "StoredOnly"}

\* std::optional arguments: [has, value].
None == [value |-> 0, has |-> FALSE]
Some(v) == [value |-> v, has |-> TRUE]
\* std::optional<bool> wrap
Wraps == {[value |-> FALSE, has |-> FALSE], [value |-> FALSE, has |-> TRUE],
          [value |-> TRUE, has |-> TRUE]}
ValueOr(o, d) == IF o.has THEN o.value ELSE d

\* The wrap flag had SetWrapForced stood after the StoredOnly test instead of
\* inside it: every pass at the last column would set it.
WrapAfterFillAnyMode(old, branch, wrap, fillingLastColumn) ==
    IF wrap.has /\ fillingLastColumn THEN wrap.value ELSE old

\* The wrap flag after a pass of the loop that found the flag at old: SetWrapForced
\* runs inside the branch that writes text, for the last column only.
WrapAfterFill(old, branch, wrap, fillingLastColumn) ==
    IF branch # "styleOnly" /\ wrap.has /\ fillingLastColumn THEN wrap.value ELSE old

\* What a pass would do if the test for StoredOnly were missing: the text
\* part would run for every cell.
StepBranchTextAlways(cell, column, limit) ==
    IF column = 0 /\ cell.dbcs = "Trailing" THEN "padFirst"
    ELSE IF column = limit /\ cell.dbcs = "Leading" THEN "padLast"
    ELSE "write"

\* What a pass of the loop does with the text of the cell at column, limit
\* being finalColumnInRow: nothing for a StoredOnly cell ("styleOnly"), a
\* padding blank, or the write of the glyph.
StepBranch(cell, column, limit) ==
    IF cell.behavior = "StoredOnly" THEN "styleOnly"
    ELSE IF column = 0 /\ cell.dbcs = "Trailing" THEN "padFirst"
    ELSE IF column = limit /\ cell.dbcs = "Leading" THEN "padLast"
    ELSE "write"

\* One pass of the loop of WriteCells on the frame f, for the call constants
\* final (finalColumnInRow) and wrap. f.status is "run" while the loop runs.
WriteStep(f, cells, final, wrap, g) ==
    LET cell == cells[f.pos + 1]
        commit == cell.behavior # "Current" /\ f.color # cell.attr
        inRange == RleInRange(f.row.attr, f.starts, f.currentIndex)
        r1 == IF commit
              THEN [f.row EXCEPT !.attr = RleReplace(@, f.starts, f.currentIndex, f.color)]
              ELSE f.row
        color1 == IF commit THEN cell.attr ELSE f.color
        uses1 == IF cell.behavior = "Current" THEN f.uses
                 ELSE IF commit THEN 1 ELSE f.uses + 1
        starts1 == IF commit THEN f.currentIndex ELSE f.starts
        fillingLastColumn == f.currentIndex = final
        branch == StepBranch(cell, f.currentIndex, final)
        res == IF branch = "styleOnly" THEN [status |-> "ok", row |-> r1]
               ELSE IF branch = "write"
               THEN ReplaceDbcs(r1, f.currentIndex, cell.dbcs, cell.chars, g)
               ELSE ClearCell(r1, f.currentIndex, g)
        r2 == [res.row EXCEPT
                 !.dbp = IF branch = "padLast" THEN TRUE ELSE @,
                 !.wrap = WrapAfterFill(@, branch, wrap, fillingLastColumn)]
        pos1 == IF branch \in {"write", "styleOnly"} THEN f.pos + 1 ELSE f.pos
    IN IF commit /\ ~inRange THEN [f EXCEPT !.status = "out_of_range"]
       ELSE IF res.status # "ok" THEN [f EXCEPT !.row = r1, !.status = res.status]
       ELSE [status |-> "run", row |-> r2, pos |-> pos1, color |-> color1,
             starts |-> starts1, currentIndex |-> f.currentIndex + 1, uses |-> uses1,
             steps |-> Append(f.steps,
                              [dbcs |-> cell.dbcs, branch |-> branch,
                               behavior |-> cell.behavior, pos |-> f.pos,
                               col |-> f.currentIndex,
                               glyph |-> GlyphAt(r2, f.currentIndex),
                               untouched |-> /\ r2.chars = f.row.chars
                                             /\ r2.cap = f.row.cap
                                             /\ r2.idx = f.row.idx
                                             /\ r2.dbp = f.row.dbp])]

RECURSIVE WriteLoop(_, _, _, _, _)
WriteLoop(f, cells, final, wrap, g) ==
    IF f.status # "run" THEN f
    ELSE IF ~(f.pos < Len(cells) /\ f.currentIndex <= final) THEN [f EXCEPT !.status = "ok"]
    ELSE WriteLoop(WriteStep(f, cells, final, wrap, g), cells, final, wrap, g)

\* The argument test if only the start column were tested.
InvalidWriteArgsStartOnly(r, index, limitRight) == index >= r.w

\* The argument tests of WriteCells: THROW_HR_IF(E_INVALIDARG, ...) twice.
InvalidWriteArgs(r, index, limitRight) ==
    index >= r.w \/ ValueOr(limitRight, 0) >= r.w

\* ROW::WriteCells(it, index, wrap, limitRight): the frame when the call ends;
\* status is "ok" on return and names the exception or the fault otherwise.
WriteCellsRow(r, cells, index, wrap, limitRight, g) ==
    LET f0 == [status |-> "run", row |-> r, pos |-> 0,
               color |-> IF cells = <<>> THEN "none" ELSE cells[1].attr,
               starts |-> index, currentIndex |-> index, uses |-> 0, steps |-> <<>>]
    IN IF InvalidWriteArgs(r, index, limitRight)
       THEN [f0 EXCEPT !.status = "invalid_arg"]
       ELSE LET f == WriteLoop(f0, cells, ValueOr(limitRight, r.w - 1), wrap, g)
            IN IF f.status # "ok" \/ f.uses = 0 THEN f
               ELSE IF ~RleInRange(f.row.attr, f.starts, f.currentIndex)
               THEN [f EXCEPT !.status = "out_of_range"]
               ELSE [f EXCEPT !.row.attr = RleReplace(@, f.starts, f.currentIndex, f.color)]

\* ------------------------------------------------------------------ state
\* Whether the calls that led to the row r replaced the buffer by a new block:
\* the growth of Replace is the only place that does, and it makes the capacity
\* larger.
GrowthAllocates(r) == r.cap # charsCapacity

\* The row's own test for "the buffer is mine to release", in ~ROW and in the
\* growth of Replace.
RowTestOwned == charsCapacity # indicesCount

\* Assigns the row r and the call record to the variables. The buffer the
\* growth of Replace replaced is released when RowTestOwned says so. A status that is
\* undefined behaviour becomes the fault; an exception leaves fault "none".
Commit(r, st, call) ==
    /\ chars' = r.chars
    /\ charsCapacity' = r.cap
    /\ indices' = r.idx
    /\ indicesCount' = r.w
    /\ attr' = r.attr
    /\ lineRendition' = r.lr
    /\ wrapForced' = r.wrap
    /\ doubleBytePadded' = r.dbp
    /\ usedLength' = r.used
    /\ fault' = IF st \in {"oob_index", "oob_chars", "crash"} THEN st ELSE "none"
    /\ last' = call
    /\ owned' = (owned \/ GrowthAllocates(r))
    /\ leaked' = (leaked \/ (GrowthAllocates(r) /\ owned /\ ~RowTestOwned))
    /\ freedBorrowed' = (freedBorrowed \/ (GrowthAllocates(r) /\ ~owned /\ RowTestOwned))

\* ROW::ROW: the arrays are the caller's; the constructor's Reset reads
\* _indices[_indicesCount] (n) before anything wrote it, and _attr is
\* default-constructed (empty).
Construct(w, fill, g, n) ==
    ResetRow([chars |-> [i \in 1..w |-> g], attr |-> <<>>, cap |-> w,
              idx |-> [i \in 1..(w + 1) |-> IF i = w + 1 THEN n ELSE 0],
              w |-> w, lr |-> "SingleWidth", wrap |-> FALSE,
              dbp |-> FALSE, used |-> w], fill)

Init ==
    \E w \in 1..MaxWidth, fill \in Styles, g \in UninitChars, n \in 0..(MaxWidth + 1) :
        LET res == Construct(w, fill, g, n)
        IN /\ n <= w + 1
           /\ chars = res.row.chars
           /\ charsCapacity = res.row.cap
           /\ indices = res.row.idx
           /\ indicesCount = res.row.w
           /\ attr = res.row.attr
           /\ lineRendition = res.row.lr
           /\ wrapForced = res.row.wrap
           /\ doubleBytePadded = res.row.dbp
           /\ usedLength = res.row.used
           /\ fault = IF res.status = "ok" THEN "none" ELSE res.status
           /\ last = [status |-> res.status, fill |-> fill, op |-> "ROW"]
           /\ owned = FALSE
           /\ leaked = FALSE
           /\ freedBorrowed = FALSE

\* ROW::Reset
ResetStep(fill) ==
    LET res == ResetRow(Row, fill)
    IN Commit(res.row, res.status, [status |-> res.status, fill |-> fill, op |-> "Reset"])

Reset == fault = "none" /\ \E fill \in Styles : ResetStep(fill)

\* ROW::ClearColumn
ClearColumnStep(column, g) ==
    IF column >= indicesCount
    THEN Commit(Row, "invalid_arg", [status |-> "invalid_arg", op |-> "ClearColumn"])
    ELSE LET res == ClearCell(Row, column, g)
         IN /\ res.row.cap <= MaxCapacity
            /\ res.row.cap # charsCapacity \/ g = UNICODE_SPACE
            /\ Commit(res.row, res.status, [status |-> res.status, op |-> "ClearColumn"])

ClearColumn ==
    fault = "none" /\ \E column \in 0..(indicesCount - 1), g \in UninitChars :
        ClearColumnStep(column, g)

\* ROW::Replace(x, width, chars)
ReplaceStep(x, width, t, g) ==
    LET res == ReplaceText(Row, x, width, t, g)
    IN /\ res.row.cap <= MaxCapacity
       /\ res.row.cap # charsCapacity \/ g = UNICODE_SPACE
       /\ Commit(res.row, res.status, [status |-> res.status, op |-> "Replace"])

Replace ==
    fault = "none" /\ \E x \in 0..(indicesCount - 1), width \in 1..2, t \in Texts,
                         g \in UninitChars : ReplaceStep(x, width, t, g)

\* ROW::Replace(beginIndex, endIndex, newAttr)
ReplaceAttrStep(b, e, v) ==
    IF RleInRange(attr, b, e)
    THEN Commit([Row EXCEPT !.attr = RleReplace(attr, b, e, v)], "ok",
                [status |-> "ok", op |-> "ReplaceAttr"])
    ELSE Commit(Row, "out_of_range", [status |-> "out_of_range", op |-> "ReplaceAttr"])

ReplaceAttr ==
    fault = "none" /\ \E b \in 0..MaxWidth, e \in 0..MaxWidth, v \in Styles :
        ReplaceAttrStep(b, e, v)

\* ROW::SetAttrToEnd
SetAttrToEndStep(b, v) ==
    IF RleInRange(attr, b, RleSize(attr))
    THEN Commit([Row EXCEPT !.attr = RleReplace(attr, b, RleSize(attr), v)], "ok",
                [status |-> "ok", op |-> "SetAttrToEnd"])
    ELSE Commit(Row, "out_of_range", [status |-> "out_of_range", op |-> "SetAttrToEnd"])

SetAttrToEnd ==
    fault = "none" /\ \E b \in 0..MaxWidth, v \in Styles : SetAttrToEndStep(b, v)

\* ROW::ReplaceAttrs
ReplaceAttrsStep(old, new) ==
    Commit([Row EXCEPT !.attr = RleReplaceValues(attr, old, new)], "ok",
           [status |-> "ok", op |-> "ReplaceAttrs"])

ReplaceAttrs ==
    fault = "none" /\ \E old \in Styles, new \in Styles : ReplaceAttrsStep(old, new)

\* ROW::TransferAttributes with a one-run list
TransferAttributesStep(v, n, newWidth) ==
    Commit([Row EXCEPT !.attr = RleResizeTrailingExtent(<<[length |-> n, value |-> v]>>,
                                                        newWidth)],
           "ok", [status |-> "ok", op |-> "TransferAttributes"])

TransferAttributes ==
    fault = "none" /\ \E v \in Styles, n \in 1..MaxWidth, newWidth \in 1..MaxWidth :
        TransferAttributesStep(v, n, newWidth)

\* What the index array handed to Resize can hold: nothing wrote it.
UninitIndexValues == {0, 1}
UninitIndices(w) == [1..(w + 1) -> UninitIndexValues]

\* __debugbreak(): the process stops at the breakpoint ("trap"), or a debugger
\* lets it go on ("go").
Breaks == {"trap", "go"}

\* ROW::Resize(buffer, indices, newWidth) past __debugbreak, buffer holding g in
\* its newWidth units and indices holding newIdx: [status, row]. When newWidth is
\* above the capacity the old block is copied and deleted, and the wmemset that
\* follows writes to the deleted block. Otherwise wmemset and iota run on the
\* old arrays, and the row moves to the new ones as they are. The style list
\* is resized last; an empty list has no final run to extend.
ResizeRow(r, g, newIdx, newWidth) ==
    IF newWidth > r.cap THEN [status |-> "use_after_free", row |-> r]
    ELSE IF r.attr = <<>> THEN [status |-> "rle_empty", row |-> r]
    ELSE [status |-> "ok",
          row |-> [r EXCEPT !.chars = [i \in 1..newWidth |-> g],
                            !.attr = RleResizeTrailingExtent(r.attr, newWidth),
                            !.cap = newWidth,
                            !.idx = newIdx,
                            !.w = newWidth,
                            !.used = newWidth]]

\* ROW::Resize
ResizeStep(newWidth, g, newIdx, brk) ==
    LET res == ResizeRow(Row, g, newIdx, newWidth)
        st == IF brk = "trap" THEN "debugbreak" ELSE res.status
        r == IF brk = "trap" THEN Row ELSE res.row
        moved == brk = "go" /\ newWidth <= charsCapacity
    IN /\ chars' = r.chars
       /\ charsCapacity' = r.cap
       /\ indices' = r.idx
       /\ indicesCount' = r.w
       /\ attr' = r.attr
       /\ lineRendition' = r.lr
       /\ wrapForced' = r.wrap
       /\ doubleBytePadded' = r.dbp
       /\ usedLength' = r.used
       /\ fault' = IF st = "ok" THEN "none" ELSE st
       /\ last' = [status |-> st, op |-> "Resize"]
       /\ owned' = (owned /\ ~moved)
       /\ leaked' = (leaked \/ (moved /\ owned))
       /\ freedBorrowed' = (freedBorrowed \/ (brk = "go" /\ newWidth > charsCapacity /\ ~owned))

Resize ==
    fault = "none"
    /\ \E newWidth \in 1..MaxWidth, g \in UninitChars, brk \in Breaks :
          \E newIdx \in UninitIndices(newWidth) : ResizeStep(newWidth, g, newIdx, brk)

\* ROW::~ROW: the block is released when RowTestOwned says so.
Destroy ==
    /\ fault = "none"
    /\ fault' = "destroyed"
    /\ last' = [status |-> "ok", op |-> "~ROW"]
    /\ owned' = owned
    /\ leaked' = (leaked \/ (owned /\ ~RowTestOwned))
    /\ freedBorrowed' = (freedBorrowed \/ (~owned /\ RowTestOwned))
    /\ UNCHANGED <<chars, charsCapacity, indices, indicesCount, attr, lineRendition,
                   wrapForced, doubleBytePadded, usedLength>>

\* The text of the cells a source yields: a wide glyph's halves carry the CJK
\* character, a single-width cell carries 'a'.
CellChars(dbcs) == IF dbcs = "Single" THEN <<97>> ELSE <<20013>>

CellsOf(dbcsSet, styleSet, behaviorSet) ==
    {[chars |-> CellChars(d), attr |-> a, dbcs |-> d, behavior |-> b] :
        d \in dbcsSet, a \in styleSet, b \in behaviorSet}

SourcesOver(cellSet) == UNION {[1..n -> cellSet] : n \in 0..MaxCells}

Limits(w) == {None} \cup {Some(v) : v \in 0..(w - 1)}

\* The values a block allocated during the call can hold: f0 is the call's result
\* for one of them; the choice is open only when the call allocated.
FreshFills(f0) == IF f0.row.cap = charsCapacity THEN {UNICODE_SPACE} ELSE UninitChars

\* ROW::WriteCells
WriteCellsStep(cells, index, wrap, limitRight) ==
    \E f0 \in {WriteCellsRow(Row, cells, index, wrap, limitRight, UNICODE_SPACE)} :
    \E g \in FreshFills(f0) :
    \E f \in {IF g = UNICODE_SPACE THEN f0
              ELSE WriteCellsRow(Row, cells, index, wrap, limitRight, g)} :
       /\ f.row.cap <= MaxCapacity
       /\ Commit(f.row, f.status,
                 [n |-> Len(cells), wrap |-> wrap, status |-> f.status,
                  final |-> ValueOr(limitRight, indicesCount - 1), steps |-> f.steps,
                  index |-> index, op |-> "WriteCells", consumed |-> f.pos])

WriteCellsOver(sources, wraps) ==
    fault = "none" /\ \E cells \in sources, index \in 0..(indicesCount - 1), wrap \in wraps,
                         limitRight \in Limits(indicesCount) :
        WriteCellsStep(cells, index, wrap, limitRight)

\* Sources of single and wide cells of one style, no wrap intent.
WriteCells ==
    WriteCellsOver(SourcesOver(CellsOf(Dbcs, {"S1"}, {"Stored"})),
                   {[value |-> FALSE, has |-> FALSE]})

\* Sources of single-width and leading cells of one style in every mode, with
\* every wrap intent.
WriteCellsWrap ==
    WriteCellsOver(SourcesOver(CellsOf({"Single"}, {"S1"}, Behaviors)), Wraps)

\* Sources of single-width and leading cells of one style, written with their
\* text (Normal mode) or style only (StoredOnly), no wrap intent.
WriteCellsStored ==
    WriteCellsOver(SourcesOver(CellsOf({"Single", "Leading"}, {"S1"},
                                       {"Stored", "StoredOnly"})),
                   {[value |-> FALSE, has |-> FALSE]})

\* Sources of single-width cells of every style and mode, no wrap intent.
WriteCellsStyle ==
    WriteCellsOver(SourcesOver(CellsOf({"Single"}, Styles, Behaviors)),
                   {[value |-> FALSE, has |-> FALSE]})

Next == Reset \/ ClearColumn \/ Replace

Spec == Init /\ [][Next]_vars

NextAttr == Reset \/ ReplaceAttr \/ SetAttrToEnd \/ ReplaceAttrs \/ TransferAttributes

SpecAttr == Init /\ [][NextAttr]_vars

NextWrite == Reset \/ TransferAttributes \/ WriteCells

SpecWrite == Init /\ [][NextWrite]_vars

NextWrap == Reset \/ TransferAttributes \/ WriteCellsWrap

SpecWrap == Init /\ [][NextWrap]_vars

NextStyle == Reset \/ TransferAttributes \/ WriteCellsStyle

SpecStyle == Init /\ [][NextStyle]_vars

\* The calls with every column argument up to MaxWidth, the row width and
\* beyond included.
ClearColumnAny ==
    fault = "none" /\ \E column \in 0..MaxWidth, g \in UninitChars :
        ClearColumnStep(column, g)

ReplaceAny ==
    fault = "none" /\ \E x \in 0..MaxWidth, width \in 1..2, t \in {<<97>>},
                         g \in UninitChars : ReplaceStep(x, width, t, g)

WriteCellsAny ==
    fault = "none"
    /\ \E cells \in SourcesOver(CellsOf({"Single"}, {"S1"}, {"Stored"})),
          index \in 0..MaxWidth, limitRight \in Limits(MaxWidth + 1) :
          WriteCellsStep(cells, index, [value |-> FALSE, has |-> FALSE], limitRight)

NextArgs == Reset \/ ClearColumnAny \/ ReplaceAny \/ WriteCellsAny

SpecArgs == Init /\ [][NextArgs]_vars

\* ROW::ROW for a row one column wider than MaxWidth, the narrowest on which
\* three columns exist.
InitWide ==
    \E fill \in Styles, g \in UninitChars, n \in 0..(MaxWidth + 2) :
        LET res == Construct(MaxWidth + 1, fill, g, n)
        IN /\ chars = res.row.chars
           /\ charsCapacity = res.row.cap
           /\ indices = res.row.idx
           /\ indicesCount = res.row.w
           /\ attr = res.row.attr
           /\ lineRendition = res.row.lr
           /\ wrapForced = res.row.wrap
           /\ doubleBytePadded = res.row.dbp
           /\ usedLength = res.row.used
           /\ fault = IF res.status = "ok" THEN "none" ELSE res.status
           /\ last = [status |-> res.status, fill |-> fill, op |-> "ROW"]
           /\ owned = FALSE
           /\ leaked = FALSE
           /\ freedBorrowed = FALSE

\* Replace with the texts "a" and "aa" at every column of the row.
ReplaceLatin ==
    fault = "none" /\ \E x \in 0..(indicesCount - 1), width \in 1..2,
                         t \in {<<97>>, <<97, 97>>}, g \in UninitChars :
                         ReplaceStep(x, width, t, g)

NextIter == Reset \/ ReplaceLatin

SpecIter == InitWide /\ [][NextIter]_vars

NextResize == Reset \/ ReplaceAny \/ TransferAttributes \/ Resize \/ Destroy

SpecResize == Init /\ [][NextResize]_vars

NextStored == Reset \/ TransferAttributes \/ WriteCellsStored

SpecStored == Init /\ [][NextStored]_vars

\* ------------------------------------------------------------------ claims
Blank == [ok |-> TRUE, text |-> <<UNICODE_SPACE>>]

\* C1: in every reachable state (that no undefined behaviour led to) the offsets
\* of the index array never decrease and the last one, indices[width], is the
\* length of the text laid out in the buffer.
C1_IndicesDescribeText ==
    fault = "none" =>
    /\ \A c \in 0..(indicesCount - 1) : indices[c + 1] <= indices[c + 2]
    /\ indices[indicesCount + 1] = usedLength

\* C2: in every reachable state, the state the constructor leaves included, the
\* lengths of the style runs sum to the row width.
C2_StyleRunsCoverWidth == RleSize(attr) = indicesCount

\* C3: writing a text t as a single-column glyph at a column x of the row makes
\* GlyphAt(x) return t and leaves the glyph of every other column as it was.
C3_WriteThenReadSingle ==
    [][\A x \in 0..(MaxWidth - 1), t \in Texts, g \in UninitChars :
          (fault = "none" /\ x < indicesCount /\ ReplaceStep(x, 1, t, g))
          => /\ GlyphAt(Row', x) = [ok |-> TRUE, text |-> t]
             /\ \A c \in 0..(indicesCount - 1) :
                   c # x => GlyphAt(Row', c) = GlyphAt(Row, c)]_vars

\* C4: writing a text t as a two-column glyph at a column x < width - 1 makes
\* column x Leading, column x + 1 Trailing, and GlyphAt of both columns t.
C4_WriteThenReadWide ==
    [][\A x \in 0..(MaxWidth - 1), t \in Texts, g \in UninitChars :
          (fault = "none" /\ x < indicesCount - 1 /\ ReplaceStep(x, 2, t, g))
          => /\ DbcsAttrAt(Row', x) = "Leading"
             /\ DbcsAttrAt(Row', x + 1) = "Trailing"
             /\ GlyphAt(Row', x) = [ok |-> TRUE, text |-> t]
             /\ GlyphAt(Row', x + 1) = [ok |-> TRUE, text |-> t]]_vars

\* C5: right after construction and after every Reset, the text is width
\* blanks, the indices are 0..width, the styles are one run of the fill style
\* of length width, and the flags are cleared.
C5_ResetBlanksRow ==
    last.op \in {"ROW", "Reset"}
    => /\ fault = "none"
       /\ GetText(Row) = [i \in 1..indicesCount |-> UNICODE_SPACE]
       /\ indices = Iota(indicesCount)
       /\ attr = <<[length |-> indicesCount, value |-> last.fill]>>
       /\ ~wrapForced
       /\ ~doubleBytePadded
       /\ lineRendition = "SingleWidth"

\* The passes of the last WriteCells call, when it got past its argument checks.
WriteSteps == IF last.op = "WriteCells" /\ last.status # "invalid_arg" THEN last.steps
              ELSE <<>>

TextCarrying(s) == s.behavior # "StoredOnly"

\* C6: when WriteCells meets a text-carrying Leading cell at the last writable
\* column, that column is cleared to a blank, doubleBytePadded is true, the loop
\* ends with that pass and a source that is returned still points at the cell.
C6_LeadingAtLastColumnPads ==
    \A i \in 1..Len(WriteSteps) :
        LET s == WriteSteps[i]
        IN (s.col = last.final /\ s.dbcs = "Leading" /\ TextCarrying(s))
           => /\ s.branch = "padLast"
              /\ s.glyph = Blank
              /\ doubleBytePadded
              /\ i = Len(WriteSteps)
              /\ last.consumed = s.pos

\* C7: when the first cell of the source is a text-carrying Trailing half, the
\* first column written (startColumn, whichever it is) is cleared to a blank,
\* the cursor stays on the cell and the cell is retried at the next column.
C7_TrailingAtFirstColumnPads ==
    (WriteSteps # <<>> /\ WriteSteps[1].dbcs = "Trailing" /\ TextCarrying(WriteSteps[1]))
    => /\ WriteSteps[1].branch = "padFirst"
       /\ WriteSteps[1].glyph = Blank
       /\ Len(WriteSteps) = 1 => last.consumed = WriteSteps[1].pos
       /\ Len(WriteSteps) > 1 => /\ WriteSteps[2].pos = WriteSteps[1].pos
                                 /\ WriteSteps[2].col = WriteSteps[1].col + 1

\* C8: a WriteCells call that gets past its argument checks returns after at
\* most rightLimit - startColumn + 1 passes, consumes the cells in order, stops
\* exactly when the source is exhausted or the column is past rightLimit, and
\* with single-width cells consumes min(n, k) of them.
C8_WriteCellsTerminates ==
    (last.op = "WriteCells" /\ last.status # "invalid_arg")
    => LET k == Max(0, last.final - last.index + 1)
           st == last.steps
       IN /\ last.status = "ok"
          /\ Len(st) <= k
          /\ \A i \in 1..Len(st) :
                /\ st[i].col = last.index + i - 1
                /\ st[i].pos = IF i = 1 THEN 0
                               ELSE IF st[i - 1].branch \in {"write", "styleOnly"}
                                    THEN st[i - 1].pos + 1 ELSE st[i - 1].pos
          /\ last.consumed = last.n \/ Len(st) = k
          /\ (\A i \in 1..Len(st) : st[i].branch \in {"write", "styleOnly"})
                => last.consumed = Min(last.n, k)

\* Whether the last call (in the next state) processed a cell at rightLimit.
FilledFinalWithText(l) ==
    \E i \in 1..Len(l.steps) : l.steps[i].col = l.final /\ TextCarrying(l.steps[i])
FilledFinal(l) == \E i \in 1..Len(l.steps) : l.steps[i].col = l.final

C10_CurrentKeepsStyle ==
    [][(last'.op = "WriteCells" /\ last'.status # "invalid_arg")
        => \A i \in 1..Len(last'.steps) :
              (last'.steps[i].behavior = "Current" /\ last'.steps[i].col < RleSize(attr))
              => RleAt(attr', last'.steps[i].col) = RleAt(attr, last'.steps[i].col)]_vars

\* C11: in every WriteCells call, a pass over a StoredOnly cell leaves the
\* buffer, the capacity, the indices and doubleBytePadded as it found them and
\* moves the source and the column on by one; a call whose source holds only
\* StoredOnly cells changes nothing of the row but the style runs.
C11_StoredOnlyKeepsText ==
    [][(last'.op = "WriteCells" /\ last'.status # "invalid_arg")
        => LET st == last'.steps
           IN /\ \A i \in 1..Len(st) :
                    st[i].behavior = "StoredOnly"
                    => /\ st[i].untouched
                       /\ st[i].branch = "styleOnly"
                       /\ IF i < Len(st)
                          THEN st[i + 1].pos = st[i].pos + 1 /\ st[i + 1].col = st[i].col + 1
                          ELSE last'.consumed = st[i].pos + 1
              /\ (st # <<>> /\ \A i \in 1..Len(st) : st[i].behavior = "StoredOnly")
                    => [Row' EXCEPT !.attr = attr] = Row]_vars

\* A call that returned after passes over a StoredOnly cell between two written
\* cells, on a row that the call changed.
C11_Witness ==
    /\ last.op = "WriteCells"
    /\ last.status = "ok"
    /\ Len(last.steps) = 2
    /\ last.steps[1].behavior = "StoredOnly"
    /\ last.steps[1].dbcs = "Leading"
    /\ last.steps[2].behavior = "Stored"
    /\ ~last.steps[2].untouched

\* C12: WriteCells with a start column >= width or a supplied right limit >=
\* width, and ClearColumn with a column >= width, signal InvalidArgument and
\* leave buffer, capacity, indices, style runs, flags and line rendition as
\* they were.
C12_InvalidArgsLeaveRow ==
    [][/\ \A column \in 0..MaxWidth, g \in UninitChars :
            (column >= indicesCount /\ ClearColumnStep(column, g))
            => (last'.status = "invalid_arg" /\ Row' = Row /\ fault' = "none")
       /\ \A cells \in SourcesOver(CellsOf({"Single"}, {"S1"}, {"Stored"})),
             index \in 0..MaxWidth, limitRight \in Limits(MaxWidth + 1) :
            (/\ last'.op = "WriteCells"
             /\ index >= indicesCount \/ (limitRight.has /\ limitRight.value >= indicesCount)
             /\ WriteCellsStep(cells, index, [value |-> FALSE, has |-> FALSE], limitRight))
            => (last'.status = "invalid_arg" /\ Row' = Row /\ fault' = "none")]_vars

\* A WriteCells call refused for its right limit alone, on a row holding text.
C12_Witness ==
    /\ last.op = "WriteCells"
    /\ last.status = "invalid_arg"
    /\ last.index < indicesCount
    /\ last.final >= indicesCount
    /\ last.n > 0
    /\ \E i \in 1..Len(chars) : chars[i] = 97

\* C13: Replace(x, width, chars) with a start column x >= width signals
\* InvalidArgument and leaves the buffer and the indices as they were.
C13_ReplacePastWidthRefused ==
    [][\A x \in 0..MaxWidth, width \in 1..2, t \in {<<97>>}, g \in UninitChars :
          (x >= indicesCount /\ ReplaceStep(x, width, t, g))
          => (last'.status = "invalid_arg" /\ chars' = chars /\ indices' = indices)]_vars

\* C14: Resize to a larger width keeps glyph text and style of every column
\* below the old width, makes every new column a blank with the style of the
\* old trailing run, and leaves non-decreasing indices and style runs that sum
\* to the new width.
C14_ResizeGrowKeepsColumns ==
    [][\A newWidth \in 1..MaxWidth, g \in UninitChars, brk \in Breaks :
       \A newIdx \in UninitIndices(newWidth) :
          (newWidth > indicesCount /\ ResizeStep(newWidth, g, newIdx, brk))
          => /\ last'.status = "ok"
             /\ \A c \in 0..(indicesCount - 1) :
                   /\ GlyphAt(Row', c) = GlyphAt(Row, c)
                   /\ c < RleSize(attr) => RleAt(attr', c) = RleAt(attr, c)
             /\ \A c \in indicesCount..(newWidth - 1) :
                   /\ GlyphAt(Row', c) = Blank
                   /\ attr # <<>> => RleAt(attr', c) = attr[Len(attr)].value
             /\ \A c \in 0..(newWidth - 1) : indices'[c + 1] <= indices'[c + 2]
             /\ RleSize(attr') = newWidth]_vars

RECURSIVE SumSeq(_)
SumSeq(q) == IF q = <<>> THEN 0 ELSE q[1] + SumSeq(Tail(q))

\* C15: in every reachable state the iteration from CharsBegin to CharsEnd
\* yields entries that span 1 or 2 columns each and the row width together; no
\* three consecutive columns share one stored offset.
C15_IteratorSpans ==
    fault = "none"
    => LET spans == CharsSpans(Row, CharsBegin(Row))
       IN /\ \A i \in 1..Len(spans) : spans[i] \in {1, 2}
          /\ SumSeq(spans) = indicesCount
          /\ \A c \in 0..(indicesCount - 3) :
                ~(indices[c + 1] = indices[c + 2] /\ indices[c + 2] = indices[c + 3])

\* What a caller can observe of a row: GetText, the indices, the style runs, the
\* two flags and the line rendition.
Observable(r) == <<GetText(r), r.idx, r.attr, r.wrap, r.dbp, r.lr>>

\* C16: for every reachable row and every fill style, a second Reset right
\* after a Reset leaves the same observable state (GetText, indices, style
\* runs, wrapForced, doubleBytePadded, line rendition) as the first one left.
C16_ResetTwiceSameAsOnce ==
    [][\A fill \in Styles :
          (fault = "none" /\ ResetStep(fill) /\ fault' = "none")
          => LET twice == ResetRow(Row', fill)
             IN /\ twice.status = "ok"
                /\ Observable(twice.row) = Observable(Row')]_vars

\* C17: ContainsText is true exactly when some code unit of the used range of
\* the text buffer differs from the blank, and false when all of them are
\* blanks, as in a row that was just reset.
C17_ContainsTextFindsNonBlank ==
    fault = "none"
    => ContainsText(Row) =
          [ok |-> TRUE,
           has |-> \E i \in 1..Min(indices[indicesCount + 1], charsCapacity) :
                      chars[i] # UNICODE_SPACE]

\* C18: in every state that Reset, ClearColumn and the text Replace with
\* in-range columns lead to, no call has read or written a code unit at or
\* past the capacity or an index past position width (no call ends in undefined
\* behaviour), and GlyphAt of every column finds its next differing offset at
\* or before position width and its text inside the buffer.
C18_AccessesStayInside ==
    last.op # "ROW"
    => /\ fault = "none"
       /\ \A c \in 0..(indicesCount - 1) : GlyphAt(Row, c).ok

\* C19: across construction, text Replace with growth, Resize and destruction,
\* the row never releases a text buffer it did not allocate (the caller's
\* buffer stays the caller's), and never drops a buffer it allocated without
\* releasing it.
C19_ReleasesOnlyItsOwnBuffers == ~freedBorrowed /\ ~leaked

\* C20: a WriteCells call that passes its argument checks with start column <=
\* right limit leaves the glyph text, the DBCS class and the style of every
\* column outside [start column, right limit] as they were before the call,
\* whatever cells it is given and whatever glyphs lie across the ends of the
\* range.
C20_WriteCellsKeepsOutside ==
    [][(/\ fault = "none"
        /\ last'.op = "WriteCells"
        /\ last'.status # "invalid_arg"
        /\ last'.index <= last'.final)
       => \A c \in 0..(indicesCount - 1) :
             (c < last'.index \/ c > last'.final)
             => /\ GlyphAt(Row', c) = GlyphAt(Row, c)
                /\ DbcsAttrAt(Row', c) = DbcsAttrAt(Row, c)
                /\ (c < RleSize(attr) /\ c < RleSize(attr'))
                      => RleAt(attr', c) = RleAt(attr, c)]_vars
====
